---- MODULE Spec2Model ----
(***************************************************************************)
(* tsh: the Process lifecycle manager of src/tsh/process.py, the pushd    *)
(* context manager of src/tsh/contexts.py and the Command blueprint of     *)
(* src/tsh/command.py.                                                     *)
(*                                                                         *)
(* One Process object, the children it spawns (one per start()), the       *)
(* daemon waiter thread of each child (Process.__process_wait) and the     *)
(* threads that call the object's methods.  Time is counted in poll        *)
(* intervals: one unit is the 0.1 s that Process.wait sleeps between two   *)
(* looks at is_running.  What a child writes is counted in chunks; a pipe   *)
(* holds PipeCapacity of them.  The three components share no state: each  *)
(* specification below moves one of them and leaves the others as they     *)
(* were constructed.                                                       *)
(***************************************************************************)
EXTENDS Integers, FiniteSets, Sequences, TLC

\* ------------------------------------------------------------------ bounds
\* start() calls explored on the one instance
MaxStarts == 2
\* largest timeout a caller passes to wait(), in poll intervals (0.1 s)
MaxTimeout == 1

\* chunks a child writes to each of its two output streams
MaxOut == 2
\* chunks an OS pipe holds before a write(2) to it blocks
PipeCapacity == 1
\* pushd blocks one thread nests
MaxDepth == 2
\* pushd calls one thread makes
MaxCalls == 2
\* Command objects constructed or baked
MaxCmds == 3

\* ------------------------------------------------------- program constants
\* time.sleep(0.1) in Process.wait: the unit of time of this model
PollInterval == 1
\* self.wait(0.5) in Process.kill: 0.5 s = 5 poll intervals
KillWait == 5
\* time.time() - current_time < (timeout * 1000)
TimeoutFactor == 1000
\* signal.SIGKILL, sent by Popen.kill, os.kill and os.killpg
SIGKILL == 9

\* exit statuses a child may leave with on its own
ExitCodes == {0, 7}

Threads == {"main", "other"}
Gens == 1 .. MaxStarts

\* ------------------------------------------------------------------ values
\* Python values that cross the API: None, an int, True/False, a raised
\* exception.  Records, so that any two of them can be compared.
None == [kind |-> "None", val |-> 0]
IntVal(x) == [kind |-> "int", val |-> x]
True == [kind |-> "True", val |-> 0]
False == [kind |-> "False", val |-> 0]
Raise(e) == [kind |-> e, val |-> 0]
Pending == [kind |-> "pending", val |-> 0]
\* a str came back; the text itself is kept in sout or serr
Str == [kind |-> "str", val |-> 0]

\* a stream the child writes to: subprocess.PIPE or a file object
PIPE == [kind |-> "PIPE", gen |-> 0]
NoWriter == [kind |-> "None", gen |-> 0]
File(g) == [kind |-> "file", gen |-> g]

NoCall == [op |-> "none", timeout |-> None, running |-> FALSE,
           alive |-> FALSE, handle |-> FALSE, killed |-> FALSE]

VARIABLES
    \* fields of the Process object (Process.__init__)
    _process,        \* 0 for None, else the Popen object of child g
    _wait_thread,    \* 0 for None, else the waiter thread of child g
    _stdout,         \* "None" or "path"
    _stderr,         \* "None" or "path"
    _demux,          \* BOOLEAN
    _stdout_writer,  \* NoWriter, PIPE or File(g)
    _stderr_writer,
    \* the operating system and the Popen objects
    nstarts,         \* start() calls made so far
    child,           \* g -> "unborn" | "alive" | "zombie" | "reaped"
    status,          \* g -> exit status of an exited child (-9: SIGKILL)
    returncode,      \* g -> Popen.returncode: None or IntVal(status)
    waiter,          \* g -> position of the waiter thread of child g
    outFile,         \* g -> "unopened" | "open" | "closed"  (stdout file)
    errFile,         \* g -> the same for the stderr file
    \* the calling threads
    pc,              \* th -> position in the method it runs ("idle": none)
    elapsed,         \* th -> time.time() - current_time of its wait()
    pid1,            \* th -> left operand self.pid of line 143
    call,            \* th -> the call it made last, and the state at the call
    ret,             \* th -> what that call returned or raised
    killed,          \* a kill() has returned True since the last spawn
    \* what the children write, and where it goes
    writing,         \* g -> "none", or the stream child g is inside write(2) on
    wrote,           \* g -> [out, err]: chunks child g has written so far
    outPipe,         \* g -> chunks in the pipe behind Popen.stdout of child g
    errPipe,         \* g -> the same for Popen.stderr
    outData,         \* contents of the file at self._stdout
    errData,         \* contents of the file at self._stderr
    inherited,       \* what went to the stderr the caller's process itself has
    \* read() and eread()
    rd,              \* th -> the pipe its read is on: [g, s]
    buf,             \* th -> what that read has taken from the pipe so far
    sout,            \* th -> the string its last read() returned
    serr,            \* th -> the string its last eread() returned
    got,             \* all that read() calls have returned from a stdout pipe
    \* pushd (src/tsh/contexts.py)
    cwd,             \* the working directory of the caller's process
    made,            \* directories os.makedirs has created
    lockOwner,       \* PUSHD_LOCK: "none" or the thread that holds it
    lockCount,       \* PUSHD_LOCK: how often its owner has acquired it
    frames,          \* th -> its pushd generator frames: [cwd, path, create]
    entry,           \* th -> the working directory at each of its pushd calls
    ppc,             \* th -> position in pushd ("user": outside of its code)
    ncalls,          \* th -> pushd calls made so far
    perr,            \* th -> the exception its last pushd block ended with
    parg,            \* th -> the arguments of its pushd call: [path, create]
    \* Command (src/tsh/command.py)
    heap,            \* the list and dict objects, by identity
    cmds,            \* the Command objects: [command, _args, _kwargs, _options]
    cerr,            \* what the last Command(...) or bake(...) raised, or None
    launched,        \* the argument vector Command.__call__ started last
    lastop           \* the last operation on Commands, with its arguments

vars == <<_process, _wait_thread, _stdout, _stderr, _demux, _stdout_writer,
          _stderr_writer, nstarts, child, status, returncode, waiter,
          outFile, errFile, pc, elapsed, pid1, call, ret, killed,
          writing, wrote, outPipe, errPipe, outData, errData, inherited,
          rd, buf, sout, serr, got,
          cwd, made, lockOwner, lockCount, frames, entry, ppc, ncalls, perr,
          parg,
          heap, cmds, cerr, launched, lastop>>

objVars == <<_process, _wait_thread, _stdout_writer, _stderr_writer>>
cfgVars == <<_stdout, _stderr, _demux>>
osVars == <<child, status, returncode, waiter>>
fileVars == <<outFile, errFile>>
ioVars == <<writing, wrote, outPipe, errPipe, outData, errData, inherited>>
rdVars == <<rd, buf, sout, serr, got>>
pushdVars == <<cwd, made, lockOwner, lockCount, frames, entry, ppc, ncalls,
               perr, parg>>
cmdVars == <<heap, cmds, cerr, launched, lastop>>
libVars == <<pushdVars, cmdVars>>
procVars == <<_process, _wait_thread, _stdout, _stderr, _demux,
              _stdout_writer, _stderr_writer, nstarts, child, status,
              returncode, waiter, outFile, errFile, pc, elapsed, pid1, call,
              ret, killed, ioVars, rdVars>>

\* the pid the OS gives child g (positive); the caller's own process is 1
ChildPid(g) == g + 1
ParentPgid == ChildPid(0)

\* ----------------------------------------------------------------- queries
\* Process.is_running
is_running ==
    IF _process = 0 THEN FALSE
    ELSE IF returncode[_process] # None THEN FALSE
    ELSE TRUE

\* a pid that forgets to ask is_running: the pid of any child still held
pid_of_handle == IF _process # 0 THEN IntVal(ChildPid(_process)) ELSE None

\* Process.pid
pid == IF is_running THEN IntVal(ChildPid(_process)) ELSE None

\* an exit_code that falls off its end instead of returning the returncode
exit_code_no_return ==
    IF is_running THEN None
    ELSE IF _process = 0 THEN Raise("AttributeError")
    ELSE None

\* Process.exit_code: self._process.returncode on None raises AttributeError
exit_code ==
    IF is_running THEN None
    ELSE IF _process = 0 THEN Raise("AttributeError")
    ELSE returncode[_process]

\* the child has left at the level of the OS
Exited(g) == child[g] \in {"zombie", "reaped"}
started == \E g \in Gens : child[g] # "unborn"

\* ------------------------------------------------------------- directories
\* a directory is the sequence of the names on its absolute path
Names == {"a", "b"}
Root == <<>>
\* the directories that exist before any os.makedirs
OnDisk == {Root} \cup {<<n>> : n \in Names}
\* a path as a caller writes it: absolute, or relative to the working
\* directory
AbsPath(parts) == [abs |-> TRUE, parts |-> parts]
RelPath(parts) == [abs |-> FALSE, parts |-> parts]
NoPath == [path |-> RelPath(<<>>), create |-> FALSE]

\* ---------------------------------------------------------------- strings
\* A str is the sequence of its parts, so that f"{prefix}{key}" is a
\* concatenation; a list is a sequence of str; a dict is the sequence of
\* its <<key, value>> pairs in insertion order, the keys plain names.
\* Command.DEFAULT_OPTIONS
DEFAULT_OPTIONS ==
    << <<"fg", <<"False">> >>, <<"in", <<"None">> >>, <<"out", <<"None">> >>,
       <<"err", <<"None">> >>, <<"kwargs_sep", <<" ">> >>,
       <<"kwargs_prefix", <<"--">> >> >>

\* no operation on Commands yet
NoOp == [op |-> "none", c |-> 0, args |-> <<>>, kwargs |-> <<>>]

\* ------------------------------------------------------------------- Init
\* Process.__init__
Configs == {[out |-> "None", err |-> "None", demux |-> TRUE]}

InitWith(cfg) ==
    /\ _process = 0
    /\ _wait_thread = 0
    /\ _stdout = cfg.out
    /\ _stderr = cfg.err
    /\ _demux = cfg.demux
    /\ _stdout_writer = NoWriter
    /\ _stderr_writer = NoWriter
    /\ nstarts = 0
    /\ child = [g \in Gens |-> "unborn"]
    /\ status = [g \in Gens |-> 0]
    /\ returncode = [g \in Gens |-> None]
    /\ waiter = [g \in Gens |-> "unborn"]
    /\ outFile = [g \in Gens |-> "unopened"]
    /\ errFile = [g \in Gens |-> "unopened"]
    /\ pc = [th \in Threads |-> "idle"]
    /\ elapsed = [th \in Threads |-> 0]
    /\ pid1 = [th \in Threads |-> None]
    /\ call = [th \in Threads |-> NoCall]
    /\ ret = [th \in Threads |-> None]
    /\ killed = FALSE
    /\ writing = [g \in Gens |-> "none"]
    /\ wrote = [g \in Gens |-> [out |-> 0, err |-> 0]]
    /\ outPipe = [g \in Gens |-> <<>>]
    /\ errPipe = [g \in Gens |-> <<>>]
    /\ outData = <<>>
    /\ errData = <<>>
    /\ inherited = <<>>
    /\ rd = [th \in Threads |-> [g |-> 0, s |-> "out"]]
    /\ buf = [th \in Threads |-> <<>>]
    /\ sout = [th \in Threads |-> <<>>]
    /\ serr = [th \in Threads |-> <<>>]
    /\ got = <<>>

\* the state of the module tsh.contexts after import, in a process whose
\* working directory is d
PushdInit(d) ==
    /\ cwd = d
    /\ made = {}
    /\ lockOwner = "none"
    /\ lockCount = 0
    /\ frames = [th \in Threads |-> <<>>]
    /\ entry = [th \in Threads |-> <<>>]
    /\ ppc = [th \in Threads |-> "user"]
    /\ ncalls = [th \in Threads |-> 0]
    /\ perr = [th \in Threads |-> None]
    /\ parg = [th \in Threads |-> NoPath]

\* no Command constructed yet
CommandInit ==
    /\ heap = <<>>
    /\ cmds = <<>>
    /\ cerr = None
    /\ launched = <<>>
    /\ lastop = NoOp

Init ==
    /\ \E cfg \in Configs : InitWith(cfg)
    /\ PushdInit(Root)
    /\ CommandInit

\* the state a call is made in, kept for the claims about its result
CallOf(op, t) ==
    [op |-> op, timeout |-> t, running |-> is_running,
     alive |-> (_process # 0 /\ child[_process] = "alive"),
     handle |-> (_process # 0), killed |-> killed]

\* a method returns v (or raises it) to the caller of th
Return(th, v) ==
    /\ pc' = [pc EXCEPT ![th] = "idle"]
    /\ ret' = [ret EXCEPT ![th] = v]

\* ------------------------------------------------------------------ start
\* Process.start: open the writers, spawn, start the waiter thread
Start(th) ==
    /\ pc[th] = "idle"
    /\ nstarts < MaxStarts
    /\ LET g == nstarts + 1 IN
       /\ nstarts' = g
       /\ call' = [call EXCEPT ![th] = CallOf("start", None)]
       /\ elapsed' = [elapsed EXCEPT ![th] = 0]
       /\ _stdout_writer' = IF _stdout = "None" THEN PIPE ELSE File(g)
       /\ outFile' = IF _stdout = "None" THEN outFile
                     ELSE [outFile EXCEPT ![g] = "open"]
       /\ _stderr_writer' =
              IF _demux
              THEN (IF _stderr = "None" THEN PIPE ELSE File(g))
              ELSE _stderr_writer
       /\ errFile' = IF _demux /\ _stderr # "None"
                     THEN [errFile EXCEPT ![g] = "open"]
                     ELSE errFile
       \* io.open(path, "wb") truncates the file
       /\ outData' = IF _stdout = "None" THEN outData ELSE <<>>
       /\ errData' = IF _demux /\ _stderr # "None" THEN <<>> ELSE errData
       /\ \/ \* subprocess.Popen succeeds
             /\ _process' = g
             /\ child' = [child EXCEPT ![g] = "alive"]
             /\ _wait_thread' = g
             /\ waiter' = [waiter EXCEPT ![g] = "waiting"]
             /\ killed' = FALSE
             /\ Return(th, None)
          \/ \* subprocess.Popen raises OSError
             /\ Return(th, Raise("CommandNotFound"))
             /\ UNCHANGED <<_process, _wait_thread, child, waiter, killed>>
    /\ UNCHANGED <<cfgVars, status, returncode, pid1, writing, wrote,
                   outPipe, errPipe, inherited, rdVars, libVars>>

\* -------------------------------------------------------- child and waiter
\* the child leaves on its own; inside a write(2) that blocks it cannot
ChildExit(g) ==
    /\ child[g] = "alive"
    /\ writing[g] = "none"
    /\ \E s \in ExitCodes :
          status' = [status EXCEPT ![g] = s]
    /\ child' = [child EXCEPT ![g] = "zombie"]
    /\ UNCHANGED <<objVars, cfgVars, ioVars, rdVars, libVars,
                   nstarts, returncode, waiter, fileVars,
                   pc, elapsed, pid1, call, ret, killed>>

\* __process_wait, self._process.wait(): waitpid returns, the child is reaped
WaiterReap(g) ==
    /\ waiter[g] = "waiting"
    /\ child[g] = "zombie"
    /\ child' = [child EXCEPT ![g] = "reaped"]
    /\ waiter' = [waiter EXCEPT ![g] = "reaped"]
    /\ UNCHANGED <<objVars, cfgVars, ioVars, rdVars, libVars,
                   nstarts, status, returncode, fileVars,
                   pc, elapsed, pid1, call, ret, killed>>

\* __process_wait, self._process.wait(): Popen stores the exit status
WaiterSetReturncode(g) ==
    /\ waiter[g] = "reaped"
    /\ returncode' = [returncode EXCEPT ![g] = IntVal(status[g])]
    /\ waiter' = [waiter EXCEPT ![g] = "cleanup"]
    /\ UNCHANGED <<objVars, cfgVars, ioVars, rdVars, libVars,
                   nstarts, child, status, fileVars,
                   pc, elapsed, pid1, call, ret, killed>>

\* closing a file object (closing a closed one changes nothing)
Closed(files, w) ==
    IF w.kind = "file" THEN [files EXCEPT ![w.gen] = "closed"] ELSE files

\* __process_wait: close the writers that are not pipes
WaiterClose(g) ==
    /\ waiter[g] = "cleanup"
    /\ outFile' = IF _stdout_writer # PIPE
                  THEN Closed(outFile, _stdout_writer) ELSE outFile
    /\ errFile' = IF _stderr_writer # PIPE /\ _demux
                  THEN Closed(errFile, _stderr_writer) ELSE errFile
    /\ waiter' = [waiter EXCEPT ![g] = "done"]
    /\ UNCHANGED <<objVars, cfgVars, ioVars, rdVars, libVars,
                   nstarts, child, status, returncode,
                   pc, elapsed, pid1, call, ret, killed>>

\* ------------------------------------------------------------------- wait
\* timeout * 1000 of line 176, for a timeout of t poll intervals: the
\* comparison is in seconds, so the factor carries over to the model's unit
Deadline(t) == t * TimeoutFactor

\* a wait() that ends: to the caller, or back into kill() (line 141), which
\* drops the value and with it the time the wait took; an exception that is
\* no OSError leaves kill() as well
WaitEnds(th, v) ==
    IF call[th].op = "kill" /\ v \in {True, False}
    THEN /\ pc' = [pc EXCEPT ![th] = "kill_142"]
         /\ ret' = ret
         /\ elapsed' = [elapsed EXCEPT ![th] = 0]
    ELSE /\ Return(th, v)
         /\ elapsed' = elapsed

\* Process.wait is called with timeout t (None, or IntVal(poll intervals))
WaitBegin(th, t) ==
    /\ pc[th] = "idle"
    /\ call' = [call EXCEPT ![th] = CallOf("wait", t)]
    /\ ret' = [ret EXCEPT ![th] = Pending]
    /\ elapsed' = [elapsed EXCEPT ![th] = 0]
    /\ pc' = [pc EXCEPT ![th] = "wait_test"]
    /\ UNCHANGED <<objVars, cfgVars, ioVars, rdVars, libVars,
                   nstarts, osVars, fileVars, pid1, killed>>

\* the loop test of line 176 (182 without a timeout) and the first half of
\* is_running, self._process is None
WaitTest(th) ==
    /\ pc[th] = "wait_test"
    /\ LET t == call[th].timeout IN
       IF t # None /\ ~(elapsed[th] < Deadline(t.val))
       THEN WaitEnds(th, False)
       ELSE IF _process = 0
            THEN WaitEnds(th, True)
            ELSE /\ pc' = [pc EXCEPT ![th] = "wait_read"]
                 /\ UNCHANGED <<ret, elapsed>>
    /\ UNCHANGED <<objVars, cfgVars, ioVars, rdVars, libVars,
                   nstarts, osVars, fileVars, pid1, call,
                   killed>>

\* the second half of is_running, self._process.returncode is not None, and
\* time.sleep(0.1) when the process still runs
WaitRead(th) ==
    /\ pc[th] = "wait_read"
    /\ IF _process = 0
       THEN WaitEnds(th, Raise("AttributeError"))
       ELSE IF returncode[_process] # None
       THEN WaitEnds(th, True)
       ELSE /\ pc' = [pc EXCEPT ![th] = "wait_test"]
            /\ ret' = ret
            /\ elapsed' = IF call[th].timeout = None THEN elapsed
                          ELSE [elapsed EXCEPT ![th] = @ + PollInterval]
    /\ UNCHANGED <<objVars, cfgVars, ioVars, rdVars, libVars,
                   nstarts, osVars, fileVars, pid1, call,
                   killed>>

\* ------------------------------------------------------------------- kill
\* Process.kill, lines 139-141: the test of the handle, Popen.kill() and the
\* call of self.wait(0.5).  SIGKILL ends a live child in the same step; the
\* time until is_running shows it is the waiter's to take.
KillBegin(th) ==
    /\ pc[th] = "idle"
    /\ call' = [call EXCEPT ![th] = CallOf("kill", IntVal(KillWait))]
    /\ elapsed' = [elapsed EXCEPT ![th] = 0]
    /\ IF _process = 0
       THEN /\ Return(th, None)
            /\ UNCHANGED <<child, status>>
       ELSE LET g == _process
                intoWait == /\ pc' = [pc EXCEPT ![th] = "wait_test"]
                            /\ ret' = [ret EXCEPT ![th] = Pending]
            IN
            \/ \* Popen.kill skips a child whose returncode is set
               /\ returncode[g] # None
               /\ intoWait
               /\ UNCHANGED <<child, status>>
            \/ \* SIGKILL reaches a live child
               /\ returncode[g] = None
               /\ child[g] = "alive"
               /\ child' = [child EXCEPT ![g] = "zombie"]
               /\ status' = [status EXCEPT ![g] = -SIGKILL]
               /\ intoWait
            \/ \* a signal to a zombie, or to a pid already reaped whose
               \* ProcessLookupError Popen.send_signal suppresses
               /\ returncode[g] = None
               /\ child[g] \in {"zombie", "reaped"}
               /\ intoWait
               /\ UNCHANGED <<child, status>>
            \/ \* a Popen.send_signal that does not suppress it: OSError
               /\ returncode[g] = None
               /\ child[g] = "reaped"
               /\ Return(th, False)
               /\ UNCHANGED <<child, status>>
    /\ UNCHANGED <<objVars, cfgVars, ioVars, rdVars, libVars,
                   nstarts, returncode, waiter, fileVars,
                   pid1, killed>>

\* line 142: if self.is_running.  Inside kill() the two reads of
\* self._process that is_running makes are one step: no specification below
\* runs a second kill() or a start() beside a kill(), so only the waiter
\* moves meanwhile, and it writes returncode alone.
Kill142(th) ==
    /\ pc[th] = "kill_142"
    /\ pc' = [pc EXCEPT ![th] = IF is_running THEN "kill_143" ELSE "kill_147"]
    /\ UNCHANGED <<objVars, cfgVars, ioVars, rdVars, libVars,
                   nstarts, osVars, fileVars, elapsed,
                   pid1, call, ret, killed>>

\* line 143, the left operand of ==: self.pid
Kill143(th) ==
    /\ pc[th] = "kill_143"
    /\ pid1' = [pid1 EXCEPT ![th] = pid]
    /\ pc' = [pc EXCEPT ![th] = "kill_143b"]
    /\ UNCHANGED <<objVars, cfgVars, ioVars, rdVars, libVars,
                   nstarts, osVars, fileVars, elapsed,
                   call, ret, killed>>

\* what a system call on self.pid does before it signals anything:
\* "TypeError" for None, "OSError" for a pid the waiter has reaped, "ok"
PidArg ==
    IF pid = None THEN "TypeError"
    ELSE IF child[_process] = "reaped" THEN "OSError"
    ELSE "ok"

\* line 143, the right operand: posix.getpgid(self.pid), and the comparison.
\* The child leads a process group if it made itself one (setsid, setpgid).
Kill143b(th) ==
    /\ pc[th] = "kill_143b"
    /\ \/ /\ PidArg = "TypeError"
          /\ Return(th, Raise("TypeError"))
       \/ /\ PidArg = "OSError"
          /\ Return(th, False)
       \/ /\ PidArg = "ok"
          /\ \E leader \in BOOLEAN :
                LET pgid == IF leader THEN ChildPid(_process) ELSE ParentPgid
                IN pc' = [pc EXCEPT ![th] = IF pid1[th] = IntVal(pgid)
                                            THEN "kill_144" ELSE "kill_146"]
          /\ ret' = ret
    /\ UNCHANGED <<objVars, cfgVars, ioVars, rdVars, libVars,
                   nstarts, osVars, fileVars, elapsed,
                   pid1, call, killed>>

\* line 144, os.killpg(self.pid, SIGKILL), and line 146, os.kill(self.pid,
\* SIGKILL)
KillEscalate(th) ==
    /\ pc[th] \in {"kill_144", "kill_146"}
    /\ \/ /\ PidArg = "TypeError"
          /\ Return(th, Raise("TypeError"))
          /\ UNCHANGED <<child, status>>
       \/ /\ PidArg = "OSError"
          /\ Return(th, False)
          /\ UNCHANGED <<child, status>>
       \/ /\ PidArg = "ok"
          /\ pc' = [pc EXCEPT ![th] = "kill_147"]
          /\ ret' = ret
          /\ IF child[_process] = "alive"
             THEN /\ child' = [child EXCEPT ![_process] = "zombie"]
                  /\ status' = [status EXCEPT ![_process] = -SIGKILL]
             ELSE UNCHANGED <<child, status>>
    /\ UNCHANGED <<objVars, cfgVars, ioVars, rdVars, libVars,
                   nstarts, returncode, waiter, fileVars,
                   elapsed, pid1, call, killed>>

\* lines 147-149: self._wait_thread.join() returns once the waiter thread
\* has ended; the handle is cleared and kill returns True
Kill147(th) ==
    /\ pc[th] = "kill_147"
    /\ _wait_thread # 0
    /\ waiter[_wait_thread] = "done"
    /\ _process' = 0
    /\ killed' = TRUE
    /\ Return(th, True)
    /\ UNCHANGED <<_wait_thread, _stdout_writer, _stderr_writer, cfgVars,
                   ioVars, rdVars, libVars,
                   nstarts, osVars, fileVars, elapsed, pid1, call>>

\* ------------------------------------------------------- the child's output
\* the i-th chunk a child writes to its stream s ("out" or "err")
Tok(s, i) == [s |-> s, i |-> i]

\* what subprocess.Popen makes of its stdout= / stderr= argument w: a new
\* pipe for PIPE, the file for a file object, and for None no redirection:
\* the child keeps the stream of the caller's process
Target(w) ==
    IF w = PIPE THEN "pipe"
    ELSE IF w.kind = "file" THEN "file"
    ELSE "inherit"

\* the argument Popen got for stream s (lines 117-118).  The writers are
\* read where they are now: the specifications that let a child write spawn
\* one child, so they are the ones it was spawned with.
WriterOf(s) == IF s = "out" THEN _stdout_writer ELSE _stderr_writer

\* the child calls write(2) with its next chunk for stream s
ChildWriteCall(g, s) ==
    /\ child[g] = "alive"
    /\ writing[g] = "none"
    /\ wrote[g][s] < MaxOut
    /\ writing' = [writing EXCEPT ![g] = s]
    /\ UNCHANGED <<objVars, cfgVars, nstarts, osVars, fileVars, pc, elapsed,
                   pid1, call, ret, killed, wrote, outPipe, errPipe, outData,
                   errData, inherited, rdVars, libVars>>

\* the write(2) returns: the chunk is in the pipe (once the pipe has room),
\* in the file, or on the caller's own stderr
ChildWriteDone(g) ==
    /\ child[g] = "alive"
    /\ writing[g] # "none"
    /\ LET s == writing[g]
           tok == Tok(s, wrote[g][s] + 1)
           to == Target(WriterOf(s))
       IN
       /\ wrote' = [wrote EXCEPT ![g][s] = @ + 1]
       /\ IF to = "pipe" /\ s = "out"
          THEN /\ Len(outPipe[g]) < PipeCapacity
               /\ outPipe' = [outPipe EXCEPT ![g] = Append(@, tok)]
          ELSE outPipe' = outPipe
       /\ IF to = "pipe" /\ s = "err"
          THEN /\ Len(errPipe[g]) < PipeCapacity
               /\ errPipe' = [errPipe EXCEPT ![g] = Append(@, tok)]
          ELSE errPipe' = errPipe
       /\ outData' = IF to = "file" /\ s = "out"
                     THEN Append(outData, tok) ELSE outData
       /\ errData' = IF to = "file" /\ s = "err"
                     THEN Append(errData, tok) ELSE errData
       /\ inherited' = IF to = "inherit"
                       THEN Append(inherited, tok) ELSE inherited
    /\ writing' = [writing EXCEPT ![g] = "none"]
    /\ UNCHANGED <<objVars, cfgVars, nstarts, osVars, fileVars, pc, elapsed,
                   pid1, call, ret, killed, rdVars, libVars>>

\* --------------------------------------------------------- read and eread
\* the pipe behind Popen.stdout / Popen.stderr of child g
PipeOf(g, s) == IF s = "out" THEN outPipe[g] ELSE errPipe[g]

\* a read() (s = "out") or eread() (s = "err") returns the text x, taken
\* from a pipe or not
ReturnText(th, s, x, piped) ==
    /\ Return(th, Str)
    /\ sout' = IF s = "out" THEN [sout EXCEPT ![th] = x] ELSE sout
    /\ serr' = IF s = "err" THEN [serr EXCEPT ![th] = x] ELSE serr
    /\ got' = IF s = "out" /\ piped THEN got \o x ELSE got

\* self._process.stdout.read() / self._process.stderr.read(): the attribute
\* of None raises; else the thread enters BufferedReader.read(), which reads
\* to the end of the stream
ReadPipe(th, s) ==
    IF _process = 0
    THEN /\ Return(th, Raise("AttributeError"))
         /\ UNCHANGED rdVars
    ELSE /\ pc' = [pc EXCEPT ![th] = "read_pipe"]
         /\ ret' = [ret EXCEPT ![th] = Pending]
         /\ rd' = [rd EXCEPT ![th] = [g |-> _process, s |-> s]]
         /\ buf' = [buf EXCEPT ![th] = <<>>]
         /\ UNCHANGED <<sout, serr, got>>

\* Process.read: the pipe if self._stdout is None, else the whole file
ReadBegin(th) ==
    /\ pc[th] = "idle"
    /\ call' = [call EXCEPT ![th] = CallOf("read", None)]
    /\ IF _stdout = "None"
       THEN ReadPipe(th, "out")
       ELSE /\ ReturnText(th, "out", outData, FALSE)
            /\ UNCHANGED <<rd, buf>>
    /\ UNCHANGED <<objVars, cfgVars, nstarts, osVars, fileVars, elapsed,
                   pid1, killed, ioVars, libVars>>

\* Process.eread: "" without demux, else the pipe or the whole file
EreadBegin(th) ==
    /\ pc[th] = "idle"
    /\ call' = [call EXCEPT ![th] = CallOf("eread", None)]
    /\ IF ~_demux
       THEN /\ ReturnText(th, "err", <<>>, FALSE)
            /\ UNCHANGED <<rd, buf>>
       ELSE IF _stderr = "None"
       THEN ReadPipe(th, "err")
       ELSE /\ ReturnText(th, "err", errData, FALSE)
            /\ UNCHANGED <<rd, buf>>
    /\ UNCHANGED <<objVars, cfgVars, nstarts, osVars, fileVars, elapsed,
                   pid1, killed, ioVars, libVars>>

\* BufferedReader.read(): take what the pipe holds and go on reading
ReadDrain(th) ==
    /\ pc[th] = "read_pipe"
    /\ LET g == rd[th].g
           s == rd[th].s
       IN
       /\ PipeOf(g, s) # <<>>
       /\ buf' = [buf EXCEPT ![th] = @ \o PipeOf(g, s)]
       /\ outPipe' = IF s = "out" THEN [outPipe EXCEPT ![g] = <<>>]
                     ELSE outPipe
       /\ errPipe' = IF s = "err" THEN [errPipe EXCEPT ![g] = <<>>]
                     ELSE errPipe
    /\ UNCHANGED <<objVars, cfgVars, nstarts, osVars, fileVars, pc, elapsed,
                   pid1, call, ret, killed, writing, wrote, outData, errData,
                   inherited, rd, sout, serr, got, libVars>>

\* BufferedReader.read(): end of file, which a pipe reaches when it is empty
\* and its write end is closed, that is when the child has exited
ReadEOF(th) ==
    /\ pc[th] = "read_pipe"
    /\ PipeOf(rd[th].g, rd[th].s) = <<>>
    /\ Exited(rd[th].g)
    /\ ReturnText(th, rd[th].s, buf[th], TRUE)
    /\ UNCHANGED <<objVars, cfgVars, nstarts, osVars, fileVars, elapsed,
                   pid1, call, killed, ioVars, rd, buf, libVars>>

\* a step inside a read() or eread()
ReadStep(th) ==
    \/ ReadDrain(th)
    \/ ReadEOF(th)

\* a step of a child that writes
ChildWrites ==
    \E g \in Gens :
        \/ \E s \in {"out", "err"} : ChildWriteCall(g, s)
        \/ ChildWriteDone(g)

\* ------------------------------------------------------------------ pushd
\* os.path.abspath(path), in a process whose working directory is d
abspath(d, path) == IF path.abs THEN path.parts ELSE d \o path.parts

\* the directory d exists
IsDir(d) == d \in OnDisk \cup made

\* d and the directories above it
UpTo(d) == {SubSeq(d, 1, k) : k \in 0 .. Len(d)}

\* the paths callers pass to pushd
PathArgs == {AbsPath(<<"b">>), RelPath(<<"a">>), AbsPath(<<"a", "b">>)}

\* a lock that lets every caller in
CanAcquireAlways(th) == lockOwner \in {"none"} \cup Threads

\* threading.RLock.acquire does not block: the lock is free or th holds it
CanAcquire(th) == lockOwner \in {"none", th}

\* a restore that goes one directory up from where the block went
RestoreParent(f) == SubSeq(f.path, 1, Len(f.path) - 1)

\* the directory line 80 goes back to: the local cwd of the frame
RestoreTarget(f) == f.cwd

Top(s) == s[Len(s)]
Pop(s) == SubSeq(s, 1, Len(s) - 1)

\* with pushd(path, create): the context manager object is made with its
\* arguments; nothing of the generator has run
PushdCall(th, path, create) ==
    /\ ppc[th] = "user"
    /\ Len(frames[th]) < MaxDepth
    /\ ncalls[th] < MaxCalls
    /\ ncalls' = [ncalls EXCEPT ![th] = @ + 1]
    /\ parg' = [parg EXCEPT ![th] = [path |-> path, create |-> create]]
    /\ entry' = [entry EXCEPT ![th] = Append(@, cwd)]
    /\ perr' = [perr EXCEPT ![th] = None]
    /\ ppc' = [ppc EXCEPT ![th] = "acquire"]
    /\ UNCHANGED <<cwd, made, lockOwner, lockCount, frames, procVars,
                   cmdVars>>

\* with_lock, "with lock:" entered: PUSHD_LOCK.acquire()
Acquire(th) ==
    /\ ppc[th] = "acquire"
    /\ CanAcquire(th)
    /\ lockOwner' = th
    /\ lockCount' = lockCount + 1
    /\ ppc' = [ppc EXCEPT ![th] = "getcwd"]
    /\ UNCHANGED <<cwd, made, frames, entry, ncalls, perr, parg, procVars,
                   cmdVars>>

\* lines 67-68: cwd = os.getcwd(); path = os.path.abspath(path)
GetCwd(th) ==
    /\ ppc[th] = "getcwd"
    /\ frames' = [frames EXCEPT ![th] =
                     Append(@, [cwd |-> cwd,
                                path |-> abspath(cwd, parg[th].path),
                                create |-> parg[th].create])]
    /\ ppc' = [ppc EXCEPT ![th] = "chdir"]
    /\ UNCHANGED <<cwd, made, lockOwner, lockCount, entry, ncalls, perr,
                   parg, procVars, cmdVars>>

\* lines 71-77: os.makedirs if create, then os.chdir(path).  It succeeds
\* and the block runs, or raises FileNotFoundError: the generator ends
\* before its try, and the exception leaves through "with lock:"
Chdir(th) ==
    /\ ppc[th] = "chdir"
    /\ LET f == Top(frames[th]) IN
       /\ made' = IF f.create THEN made \cup (UpTo(f.path) \ OnDisk)
                  ELSE made
       /\ IF f.create \/ IsDir(f.path)
          THEN /\ cwd' = f.path
               /\ ppc' = [ppc EXCEPT ![th] = "user"]
               /\ UNCHANGED <<frames, entry, perr>>
          ELSE /\ cwd' = cwd
               /\ frames' = [frames EXCEPT ![th] = Pop(@)]
               /\ entry' = [entry EXCEPT ![th] = Pop(@)]
               /\ perr' = [perr EXCEPT ![th] = Raise("FileNotFoundError")]
               /\ ppc' = [ppc EXCEPT ![th] = "release"]
    /\ UNCHANGED <<lockOwner, lockCount, ncalls, parg, procVars, cmdVars>>

\* the block of the innermost with statement ends, normally or by raising
BlockExit(th, raised) ==
    /\ ppc[th] = "user"
    /\ frames[th] # <<>>
    /\ perr' = [perr EXCEPT ![th] =
                   IF raised THEN Raise("Exception") ELSE None]
    /\ ppc' = [ppc EXCEPT ![th] = "restore"]
    /\ UNCHANGED <<cwd, made, lockOwner, lockCount, frames, entry, ncalls,
                   parg, procVars, cmdVars>>

\* lines 78-80, the finally of the generator: os.chdir(cwd)
Restore(th) ==
    /\ ppc[th] = "restore"
    /\ cwd' = RestoreTarget(Top(frames[th]))
    /\ frames' = [frames EXCEPT ![th] = Pop(@)]
    /\ entry' = [entry EXCEPT ![th] = Pop(@)]
    /\ ppc' = [ppc EXCEPT ![th] = "release"]
    /\ UNCHANGED <<made, lockOwner, lockCount, ncalls, perr, parg, procVars,
                   cmdVars>>

\* with_lock, "with lock:" left, on every path: PUSHD_LOCK.release()
Release(th) ==
    /\ ppc[th] = "release"
    /\ lockCount' = lockCount - 1
    /\ lockOwner' = IF lockCount = 1 THEN "none" ELSE lockOwner
    /\ ppc' = [ppc EXCEPT ![th] = "user"]
    /\ UNCHANGED <<cwd, made, frames, entry, ncalls, perr, parg, procVars,
                   cmdVars>>

\* a step of thread th in or around pushd
PushdStep(th) ==
    \/ \E path \in PathArgs, create \in BOOLEAN : PushdCall(th, path, create)
    \/ Acquire(th)
    \/ GetCwd(th)
    \/ Chdir(th)
    \/ \E raised \in BOOLEAN : BlockExit(th, raised)
    \/ Restore(th)
    \/ Release(th)

\* ---------------------------------------------------------------- Command
\* the keys of dict d
Keys(d) == {d[i][1] : i \in 1 .. Len(d)}

\* d[k]
Get(d, k) == d[CHOOSE i \in 1 .. Len(d) : d[i][1] = k][2]

\* d[k] = v: a key d has keeps its place, a new key goes to the end
Put(d, k, v) ==
    IF k \in Keys(d)
    THEN [i \in 1 .. Len(d) |-> IF d[i][1] = k THEN <<k, v>> ELSE d[i]]
    ELSE Append(d, <<k, v>>)

\* {**a, **b}
RECURSIVE DictMerge(_, _)
DictMerge(a, b) ==
    IF b = <<>> THEN a
    ELSE DictMerge(Put(a, b[1][1], b[1][2]), Tail(b))

\* d without the keys in ks
RECURSIVE Without(_, _)
Without(d, ks) ==
    IF d = <<>> THEN <<>>
    ELSE IF d[1][1] \in ks THEN Without(Tail(d), ks)
    ELSE <<d[1]>> \o Without(Tail(d), ks)

\* f"_{option}"
OptionKey(option) ==
    CASE option = "fg" -> "_fg"
      [] option = "in" -> "_in"
      [] option = "out" -> "_out"
      [] option = "err" -> "_err"
      [] option = "kwargs_sep" -> "_kwargs_sep"
      [] option = "kwargs_prefix" -> "_kwargs_prefix"

\* lines 66-70: the options among the keyword arguments, in the order of
\* DEFAULT_OPTIONS
RECURSIVE OptionsIn(_, _)
OptionsIn(kwargs, defaults) ==
    IF defaults = <<>> THEN <<>>
    ELSE LET option == defaults[1][1]
             rest == OptionsIn(kwargs, Tail(defaults))
         IN IF OptionKey(option) \in Keys(kwargs)
            THEN <<<<option, Get(kwargs, OptionKey(option))>>>> \o rest
            ELSE rest

\* the keyword arguments left after kwargs.pop(key) for every option
NamedIn(kwargs) ==
    Without(kwargs, {OptionKey(DEFAULT_OPTIONS[i][1]) :
                         i \in 1 .. Len(DEFAULT_OPTIONS)})

\* the executables shutil.which finds
Installed == {"ls"}

\* shutil.which(cmd): the path of the executable, <<>> for None; a path
\* that is absolute already is looked at as it is
which(cmd) ==
    IF Len(cmd) = 2 THEN cmd
    ELSE IF cmd[1] \in Installed THEN <<"/bin/", cmd[1]>>
    ELSE <<>>

\* Command.__init__: the object with its own empty list and dicts
NewCommand(name) ==
    /\ Len(cmds) < MaxCmds
    /\ lastop' = [op |-> "new", c |-> 0, args |-> <<name>>, kwargs |-> <<>>]
    /\ IF which(name) = <<>>
       THEN /\ cerr' = Raise("CommandNotFound")
            /\ UNCHANGED <<heap, cmds>>
       ELSE /\ cerr' = None
            /\ heap' = heap \o <<<<>>, <<>>, DEFAULT_OPTIONS>>
            /\ cmds' = Append(cmds, [command |-> which(name),
                                     _args |-> Len(heap) + 1,
                                     _kwargs |-> Len(heap) + 2,
                                     _options |-> Len(heap) + 3])
    /\ UNCHANGED <<launched, procVars, pushdVars>>

\* a bake that binds in place: it extends and updates the parent's own list
\* and dicts and hands them to the new Command
bake_in_place(c, args, kwargs) ==
    LET self == cmds[c] IN
    [heap |-> [heap EXCEPT
                 ![self._args] = @ \o args,
                 ![self._kwargs] = DictMerge(@, NamedIn(kwargs)),
                 ![self._options] =
                     DictMerge(@, OptionsIn(kwargs, DEFAULT_OPTIONS))],
     cmds |-> Append(cmds, self)]

\* Command.bake, lines 60-78: the heap and the Commands after
\* cmds[c].bake(*args, **kwargs).  The new Command gets a new list and two
\* new dicts; the ones Command.__init__ gave it are dropped.
bake(c, args, kwargs) ==
    LET self == cmds[c] IN
    [heap |-> heap \o
              <<heap[self._args] \o args,
                DictMerge(heap[self._kwargs], NamedIn(kwargs)),
                DictMerge(heap[self._options],
                          OptionsIn(kwargs, DEFAULT_OPTIONS))>>,
     cmds |-> Append(cmds, [command |-> which(self.command),
                            _args |-> Len(heap) + 1,
                            _kwargs |-> Len(heap) + 2,
                            _options |-> Len(heap) + 3])]

\* lines 91-95: the arguments the dict of named arguments renders to
RECURSIVE Render(_, _, _)
Render(kwargs, sep, prefix) ==
    IF kwargs = <<>> THEN <<>>
    ELSE LET key == kwargs[1][1]
             value == kwargs[1][2]
         IN (IF sep = <<" ">>
             THEN <<prefix \o <<key>>, value>>
             ELSE <<prefix \o <<key>> \o sep \o value>>)
            \o Render(Tail(kwargs), sep, prefix)

\* Command.command_list of the Command cmd, on the heap h
command_list(h, cmd) ==
    <<cmd.command>> \o h[cmd._args]
        \o Render(h[cmd._kwargs], Get(h[cmd._options], "kwargs_sep"),
                  Get(h[cmd._options], "kwargs_prefix"))

\* the positional and keyword arguments callers bake
ArgLists == {<<>>, << <<"x">> >>}
KwArgs ==
    {<<>>,
     << <<"k", <<"v">> >> >>,
     << <<"j", <<"w">> >>, <<"k", <<"w">> >> >>,
     << <<"_kwargs_sep", <<"=">> >> >>,
     << <<"k", <<"u">> >>, <<"_fg", <<"True">> >> >>}

\* cmds[c].bake(*args, **kwargs), the result kept by the caller
Bake(c, args, kwargs) ==
    /\ Len(cmds) < MaxCmds
    /\ lastop' = [op |-> "bake", c |-> c, args |-> args, kwargs |-> kwargs]
    /\ heap' = bake(c, args, kwargs).heap
    /\ cmds' = bake(c, args, kwargs).cmds
    /\ cerr' = None
    /\ UNCHANGED <<launched, procVars, pushdVars>>

\* Command.__call__: bake, then a Process on the baked command_list is
\* started (the Process itself is the subject of the specifications above)
Call(c, args, kwargs) ==
    /\ Len(cmds) < MaxCmds
    /\ lastop' = [op |-> "call", c |-> c, args |-> args, kwargs |-> kwargs]
    /\ heap' = bake(c, args, kwargs).heap
    /\ cmds' = bake(c, args, kwargs).cmds
    /\ launched' = command_list(heap', cmds'[Len(cmds')])
    /\ cerr' = None
    /\ UNCHANGED <<procVars, pushdVars>>

\* ------------------------------------------------------------------- specs
\* a step of a method some thread is in
MethodStep(th) ==
    \/ WaitTest(th)
    \/ WaitRead(th)
    \/ Kill142(th)
    \/ Kill143(th)
    \/ Kill143b(th)
    \/ KillEscalate(th)
    \/ Kill147(th)

\* a step of the operating system or of a waiter thread
Background ==
    \E g \in Gens :
        \/ ChildExit(g)
        \/ WaiterReap(g)
        \/ WaiterSetReturncode(g)
        \/ WaiterClose(g)

Timeouts == {None} \cup {IntVal(t) : t \in 0 .. MaxTimeout}

\* One caller that keeps to the lifecycle: it starts the instance until a
\* child is spawned and never again after that.
Next ==
    \/ (~started /\ Start("main"))
    \/ KillBegin("main")
    \/ \E t \in Timeouts : WaitBegin("main", t)
    \/ \E th \in Threads : MethodStep(th)
    \/ Background

Spec == Init /\ [][Next]_vars

\* The scheduler runs every thread that can take a step: the waiter threads
\* and the threads inside a method.  Nothing makes a child exit.
Fairness ==
    /\ \A g \in Gens : WF_vars(WaiterReap(g))
    /\ \A g \in Gens : WF_vars(WaiterSetReturncode(g))
    /\ \A g \in Gens : WF_vars(WaiterClose(g))
    /\ \A th \in Threads : WF_vars(MethodStep(th))

FairSpec == Spec /\ Fairness

\* A caller that does not keep to the lifecycle: start() at any time.
NextRestart ==
    \/ Start("main")
    \/ KillBegin("main")
    \/ \E t \in Timeouts : WaitBegin("main", t)
    \/ \E th \in Threads : MethodStep(th)
    \/ Background

SpecRestart == Init /\ [][NextRestart]_vars

\* Two callers: "main" starts the instance and waits for it without a
\* timeout, "other" kills it.
NextConc ==
    \/ (~started /\ Start("main"))
    \/ WaitBegin("main", None)
    \/ KillBegin("other")
    \/ \E th \in Threads : MethodStep(th)
    \/ Background

SpecConc == Init /\ [][NextConc]_vars

\* Every way to construct the Process: each stream to a pipe or to a file,
\* with and without demux.  One caller starts it ...
StreamConfigs ==
    [out : {"None", "path"}, err : {"None", "path"}, demux : BOOLEAN]

InitIO ==
    /\ \E cfg \in StreamConfigs : InitWith(cfg)
    /\ PushdInit(Root)
    /\ CommandInit

\* ... and reads both streams, in any order, while the child writes
NextRead ==
    \/ (~started /\ Start("main"))
    \/ ReadBegin("main")
    \/ EreadBegin("main")
    \/ ReadStep("main")
    \/ Background
    \/ ChildWrites

SpecRead == InitIO /\ [][NextRead]_vars

\* The caller's thread and the waiter thread are scheduled, and the kernel
\* ends a write(2) that has room.  Nothing makes a child write or exit.
FairnessRead ==
    /\ WF_vars(ReadStep("main"))
    /\ \A g \in Gens :
          /\ WF_vars(ChildWriteDone(g))
          /\ WF_vars(WaiterReap(g))
          /\ WF_vars(WaiterSetReturncode(g))
          /\ WF_vars(WaiterClose(g))

FairSpecRead == SpecRead /\ FairnessRead

\* pushd alone: the process starts in any directory on disk
InitPushd ==
    /\ \E cfg \in Configs : InitWith(cfg)
    /\ \E d \in OnDisk : PushdInit(d)
    /\ CommandInit

\* one thread uses pushd
NextPushd == PushdStep("main")

SpecPushd == InitPushd /\ [][NextPushd]_vars

\* several threads use pushd, on directories that exist or do not; every
\* thread is scheduled, every block ends, and a free lock is given to a
\* thread that waits for it
NextPushdConc ==
    \E th \in Threads :
        \/ \E path \in {AbsPath(<<"b">>), RelPath(<<"a">>)} :
              PushdCall(th, path, FALSE)
        \/ Acquire(th)
        \/ GetCwd(th)
        \/ Chdir(th)
        \/ \E raised \in BOOLEAN : BlockExit(th, raised)
        \/ Restore(th)
        \/ Release(th)

FairnessPushd ==
    \A th \in Threads :
        /\ WF_vars(Acquire(th))
        /\ WF_vars(GetCwd(th))
        /\ WF_vars(Chdir(th))
        /\ WF_vars(\E raised \in BOOLEAN : BlockExit(th, raised))
        /\ WF_vars(Restore(th))
        /\ WF_vars(Release(th))

SpecPushdConc == Init /\ [][NextPushdConc]_vars /\ FairnessPushd

\* The Process on files, on pipes, and without demux; one caller starts it
\* and kills it.
FileConfigs ==
    {[out |-> "path", err |-> "path", demux |-> TRUE],
     [out |-> "path", err |-> "path", demux |-> FALSE],
     [out |-> "None", err |-> "None", demux |-> TRUE]}

InitFiles ==
    /\ \E cfg \in FileConfigs : InitWith(cfg)
    /\ PushdInit(Root)
    /\ CommandInit

NextFiles ==
    \/ (~started /\ Start("main"))
    \/ KillBegin("main")
    \/ MethodStep("main")
    \/ Background

SpecFiles == InitFiles /\ [][NextFiles]_vars

\* the same caller, with the waiter threads and the caller scheduled
FairSpecFiles == SpecFiles /\ Fairness

\* A caller that starts the instance on two pipes or on two files, kills
\* it or lets it exit, and reads stdout and stderr once it runs no more.
ReadConfigs ==
    {[out |-> "None", err |-> "None", demux |-> TRUE],
     [out |-> "path", err |-> "path", demux |-> TRUE]}

InitAfter ==
    /\ \E cfg \in ReadConfigs : InitWith(cfg)
    /\ PushdInit(Root)
    /\ CommandInit

NextAfter ==
    \/ (~started /\ Start("main"))
    \/ KillBegin("main")
    \/ MethodStep("main")
    \/ (started /\ ~is_running /\ ReadBegin("main"))
    \/ (started /\ ~is_running /\ EreadBegin("main"))
    \/ ReadStep("main")
    \/ Background
    \/ ChildWrites

SpecAfter == InitAfter /\ [][NextAfter]_vars

\* Commands are constructed for names that resolve or do not, baked and
\* called, in any order.
NextCommand ==
    \/ \E name \in {<<"ls">>, <<"nosuch">>} : NewCommand(name)
    \/ \E c \in 1 .. Len(cmds), args \in ArgLists, kwargs \in KwArgs :
          Bake(c, args, kwargs)
    \/ \E c \in 1 .. Len(cmds), args \in ArgLists, kwargs \in KwArgs :
          Call(c, args, kwargs)

SpecCommand == Init /\ [][NextCommand]_vars

\* execute(command, demux): a Process on two pipes, and the calls of lines
\* 285-287 in their order: p.start(), p.wait(), p.read(), p.eread()
ExecConfigs == {cfg \in StreamConfigs : cfg.out = "None" /\ cfg.err = "None"}

InitExec ==
    /\ \E cfg \in ExecConfigs : InitWith(cfg)
    /\ PushdInit(Root)
    /\ CommandInit

\* th has come back from a call of op and has made no call since
Back(th, op) == pc[th] = "idle" /\ call[th].op = op

ExecuteStep ==
    \/ (nstarts = 0 /\ Start("main"))
    \/ (Back("main", "start") /\ ret["main"] = None
            /\ WaitBegin("main", None))
    \/ WaitTest("main")
    \/ WaitRead("main")
    \/ (Back("main", "wait") /\ ReadBegin("main"))
    \/ (Back("main", "read") /\ ret["main"] = Str /\ EreadBegin("main"))
    \/ ReadStep("main")

NextExec ==
    \/ ExecuteStep
    \/ Background
    \/ ChildWrites

\* The threads are scheduled (the caller, the waiter), the kernel ends a
\* write(2) that has room, and a child that has nothing more to write
\* exits.  Nothing makes a child write.
FairnessExec ==
    /\ WF_vars(ExecuteStep)
    /\ \A g \in Gens :
          /\ WF_vars(ChildWriteDone(g))
          /\ WF_vars(ChildExit(g))
          /\ WF_vars(WaiterReap(g))
          /\ WF_vars(WaiterSetReturncode(g))
          /\ WF_vars(WaiterClose(g))

FairSpecExec == InitExec /\ [][NextExec]_vars /\ FairnessExec

\* ================================================================== claims
\* child g left on its own, with one of its own exit statuses
NaturalExit(g) == Exited(g) /\ status[g] \in ExitCodes

\* C1: a kill() called while the child is alive returns True, and in the
\* state it returns in is_running is false and the handle is cleared; a
\* kill() called after a kill() that returned True returns None; whatever
\* the waiter thread does in between.
C1_KillRunningReturnsTrue ==
    \A th \in Threads :
        Back(th, "kill") =>
            /\ call[th].alive =>
                  (ret[th] = True /\ ~is_running /\ _process = 0)
            /\ call[th].killed => ret[th] = None

\* C2: is_running is true exactly when the object holds a handle and the
\* child has not exited at the level of the OS, whether or not the waiter
\* thread has seen the exit.
C2_IsRunningIffChildAlive ==
    is_running <=> (_process # 0 /\ ~Exited(_process))

\* C3: for a started process whose child leaves on its own with status s:
\* while is_running is true exit_code is None, once is_running is false
\* exit_code is s, and with the waiter thread scheduled is_running does
\* become false.
C3_NaturalExit ==
    /\ [](\A g \in Gens :
            (_process = g) =>
                IF is_running THEN exit_code = None
                ELSE NaturalExit(g) => exit_code = IntVal(status[g]))
    /\ (_process # 0 /\ NaturalExit(_process)) ~> ~is_running

C3_Witness ==
    /\ _process = 1
    /\ status[1] = 7
    /\ NaturalExit(1)
    /\ ~is_running
    /\ exit_code = IntVal(7)

\* C4: a wait(timeout = t) on a running process is over by t plus one poll
\* interval after the call; if it returned False the handle is still held,
\* and if it returned True it did so before t had passed.
C4_WaitKeepsTimeout ==
    \A th \in Threads :
        (call[th].op = "wait" /\ call[th].timeout # None
                              /\ call[th].running) =>
            /\ pc[th] # "idle" =>
                  elapsed[th] <= call[th].timeout.val + PollInterval
            /\ (pc[th] = "idle" /\ ret[th] = False) =>
                  /\ elapsed[th] <= call[th].timeout.val + PollInterval
                  /\ _process # 0
            /\ (pc[th] = "idle" /\ ret[th] = True) =>
                  elapsed[th] <= call[th].timeout.val

\* C5: kill() returns None whenever is_running is false at the call (never
\* started, already killed, exited and reaped), and returns True only when
\* is_running was true at the call.
C5_KillNoneUnlessRunning ==
    \A th \in Threads :
        Back(th, "kill") =>
            /\ ~call[th].running => ret[th] = None
            /\ ret[th] = True => call[th].running

\* C6: the instance only moves Unstarted -> Running -> Finished: once it has
\* been started and is not running it never runs again, and it spawns at
\* most one child, whatever calls are made.
C6_OneChildNoRestart ==
    [][/\ (started /\ ~is_running) => ~is_running'
       /\ Cardinality({g \in Gens : child'[g] # "unborn"}) <= 1]_vars

\* C7: every kill() ends with True, False or None: it never lets an
\* exception out, whatever the waiter thread does between its steps.
C7_KillNeverRaises ==
    \A th \in Threads :
        Back(th, "kill") => ret[th] \in {True, False, None}

\* C8: exit_code never fails: it is None while the process runs and the
\* child's exit status whenever the process was started and runs no more,
\* also before start() and after a kill() that cleared the handle.
C8_ExitCodeTotal ==
    /\ exit_code.kind \in {"None", "int"}
    /\ is_running => exit_code = None
    /\ \A g \in Gens :
          (_wait_thread = g /\ ~is_running /\ Exited(g)) =>
              exit_code = IntVal(status[g])

\* C9: a wait() without timeout ends only by returning True, with is_running
\* false, also when another thread kills the process meanwhile.
C9_WaitReturnsTrue ==
    \A th \in Threads :
        (Back(th, "wait") /\ call[th].timeout = None) => ret[th] = True

\* C10: the start() that spawns the child takes is_running from false to
\* true and makes pid the child's positive process id; and in every state pid
\* is that id when is_running is true and None when it is false.
C10_PidWhileRunning ==
    /\ [][(nstarts' # nstarts /\ _process' # _process) =>
             /\ ~is_running
             /\ pid = None
             /\ is_running'
             /\ pid' = IntVal(ChildPid(_process'))
             /\ pid'.val > 0]_vars
    /\ [](IF is_running
          THEN pid = IntVal(ChildPid(_process)) /\ pid.val > 0
          ELSE pid = None)

C10_Witness ==
    /\ Back("main", "start")
    /\ is_running
    /\ pid = IntVal(ChildPid(1))

\* C11: in one thread, at every nesting depth, the step that leaves a pushd
\* block (normally or by an exception) makes the working directory the one
\* that was current when that pushd was called, so nested blocks unwind as
\* a stack; and a pushd whose os.chdir fails leaves the working directory
\* as it was at the call.
C11_PushdRestores ==
    [][\A th \in Threads :
          /\ (ppc[th] = "restore" /\ ppc'[th] = "release") =>
                 cwd' = Top(entry[th])
          /\ (ppc[th] = "chdir" /\ ppc'[th] = "release") =>
                 (cwd' = cwd /\ cwd = Top(entry[th]))]_vars

C11_Witness ==
    /\ ppc["main"] = "release"
    /\ perr["main"] = Raise("Exception")
    /\ Len(frames["main"]) = 1
    /\ cwd = Top(frames["main"]).path
    /\ cwd # Top(frames["main"]).cwd

\* thread th is inside a pushd chain: between the acquire of the lock by
\* its outermost pushd and the release that ends it
Inside(th) ==
    \/ frames[th] # <<>>
    \/ ppc[th] \in {"getcwd", "chdir", "restore", "release"}

\* C12: with several threads, at most one is inside a pushd chain, and it
\* holds the lock; while it is inside, every step that records, changes or
\* restores the working directory is its own; and a thread that waits for
\* the lock gets it in the end, whichever way the chains before it ended.
C12_PushdSerialized ==
    /\ [](\A t \in Threads :
            Inside(t) =>
                /\ lockOwner = t
                /\ \A u \in Threads \ {t} : ~Inside(u))
    /\ [][\A t \in Threads :
            (Inside(t) /\ (cwd' # cwd \/ frames' # frames)) =>
                /\ ppc'[t] # ppc[t]
                /\ \A u \in Threads \ {t} : frames'[u] = frames[u]]_vars
    /\ \A u \in Threads : (ppc[u] = "acquire") ~> (ppc[u] # "acquire")

C12_Witness ==
    /\ ppc["other"] = "acquire"
    /\ frames["other"] = <<>>
    /\ Len(frames["main"]) = 2
    /\ lockOwner = "main"
    /\ lockCount = 2

\* the chunks in a sequence
Range(s) == {s[i] : i \in 1 .. Len(s)}

\* the chunks child g has sent to the sink of its stdout that are still on
\* their way to the caller or have reached it: in the pipe, in a read()
\* under way, returned by a read(); or in the stdout file
InStdoutSink(g) ==
    IF _stdout = "None"
    THEN Range(outPipe[g]) \cup Range(got) \cup
         UNION {Range(buf[th]) : th \in {x \in Threads :
                    pc[x] = "read_pipe" /\ rd[x] = [g |-> g, s |-> "out"]}}
    ELSE Range(outData)

\* C13: with demux = False every chunk the child has written to its stderr
\* is in the sink of its stdout (the stdout pipe, from where read() returns
\* it, or the stdout file), and eread() returns the empty string.
C13_DemuxFalseMerges ==
    ~_demux =>
        /\ \A g \in Gens : \A i \in 1 .. wrote[g].err :
              Tok("err", i) \in InStdoutSink(g)
        /\ \A th \in Threads :
              Back(th, "eread") => (ret[th] = Str /\ serr[th] = <<>>)

\* C14: a start() that ends with CommandNotFound leaves no handle, no waiter
\* thread, is_running false and pid None, and neither of the files it opened
\* for the child's output is still open.
C14_FailedStartLeavesNothing ==
    [][(nstarts' # nstarts /\ ret'["main"] = Raise("CommandNotFound")) =>
          /\ _process' = _process
          /\ _wait_thread' = _wait_thread
          /\ ~is_running'
          /\ pid' = None
          /\ outFile'[nstarts'] # "open"
          /\ errFile'[nstarts'] # "open"]_vars

\* what a caller sees of Command c: its rendered argument vector, its
\* positional arguments, its named arguments and its options
View(h, cs, c) ==
    [argv |-> command_list(h, cs[c]),
     args |-> h[cs[c]._args],
     kwargs |-> h[cs[c]._kwargs],
     options |-> h[cs[c]._options]]

\* the keyword arguments that name an option: _fg, _in, ...
OptionKeys == {OptionKey(o) : o \in Keys(DEFAULT_OPTIONS)}

\* C15: a bake() (also the one inside __call__) leaves every Command that
\* exists, the one it is called on included, with the argument vector, the
\* positional arguments, the named arguments and the options it had; and the
\* Command it returns has the parent's positional arguments followed by the
\* new ones, and the parent's named arguments and options overridden by the
\* new ones.
C15_BakeDoesNotMutate ==
    [][lastop'.op \in {"bake", "call"} =>
          /\ \A c \in 1 .. Len(cmds) :
                View(heap', cmds', c) = View(heap, cmds, c)
          /\ Len(cmds') = Len(cmds) + 1
          /\ LET new == View(heap', cmds', Len(cmds'))
                 old == View(heap, cmds, lastop'.c)
                 kw == lastop'.kwargs
             IN
             /\ new.args = old.args \o lastop'.args
             /\ Keys(new.kwargs) =
                    Keys(old.kwargs) \cup (Keys(kw) \ OptionKeys)
             /\ \A k \in Keys(new.kwargs) :
                   Get(new.kwargs, k) =
                       IF k \in Keys(kw) THEN Get(kw, k)
                       ELSE Get(old.kwargs, k)
             /\ \A o \in Keys(DEFAULT_OPTIONS) :
                   Get(new.options, o) =
                       IF OptionKey(o) \in Keys(kw)
                       THEN Get(kw, OptionKey(o))
                       ELSE Get(old.options, o)
             /\ Keys(new.options) = Keys(DEFAULT_OPTIONS)]_vars

C15_Witness ==
    /\ Len(cmds) = 3
    /\ lastop = [op |-> "bake", c |-> 2, args |-> << <<"x">> >>,
                 kwargs |-> << <<"_kwargs_sep", <<"=">> >> >>]
    /\ View(heap, cmds, 2).argv = <<<<"/bin/", "ls">>, <<"--", "k">>, <<"v">>>>
    /\ View(heap, cmds, 3).argv =
           <<<<"/bin/", "ls">>, <<"x">>, <<"--", "k", "=", "v">>>>

\* the first n chunks of stream s
Chunks(s, n) == [i \in 1 .. n |-> Tok(s, i)]

\* execute() has returned its Result
Executed == Back("main", "eread") /\ ret["main"] = Str

\* C16: once execute() has spawned the child it returns in the end, however
\* much the child writes before it exits; and the Result it returns has the
\* child's exit status, as stdout all the child wrote to stdout and (with
\* demux) as stderr all it wrote to stderr.
C16_ExecuteCompletes ==
    /\ [](Executed =>
            /\ exit_code = IntVal(status[_process])
            /\ sout["main"] = Chunks("out", wrote[_process].out)
            /\ _demux => serr["main"] = Chunks("err", wrote[_process].err))
    /\ (_process # 0) ~> Executed

\* C17: on a stdout pipe read() is drain-once: no chunk is returned twice,
\* each read() returns what no earlier read() has returned, the empty string
\* when there is nothing new, and a read() does return; on a stdout file
\* every read() returns the whole contents of the file.
C17_ReadSemantics ==
    /\ [](\A i, j \in 1 .. Len(got) : i # j => got[i] # got[j])
    /\ [][\A th \in Threads :
            /\ (pc[th] = "read_pipe" /\ rd[th].s = "out"
                    /\ pc'[th] = "idle") =>
                   /\ ret'[th] = Str
                   /\ got' = got \o sout'[th]
                   /\ Range(got) = Range(Chunks("out", wrote[rd[th].g].out))
                          => sout'[th] = <<>>
            /\ (_stdout # "None" /\ ReadBegin(th)) =>
                   (ret'[th] = Str /\ sout'[th] = outData)]_vars
    /\ (pc["main"] = "read_pipe") ~> (pc["main"] = "idle")

\* C18: a file that start() has opened for stdout or stderr is closed by
\* the waiter thread, once, and only after the child has exited: it is
\* closed in the waiter's last step and in no other, stays closed, and
\* does get closed once no child holds it; the waiter leaves the pipes
\* as they are.
OpenFile(g) == outFile[g] = "open" \/ errFile[g] = "open"
Closes(g) ==
    \/ outFile[g] # "closed" /\ outFile'[g] = "closed"
    \/ errFile[g] # "closed" /\ errFile'[g] = "closed"

C18_WaiterClosesFiles ==
    /\ [][\A g \in Gens :
            /\ Closes(g) =>
                   /\ waiter[g] = "cleanup" /\ waiter'[g] = "done"
                   /\ Exited(g)
                   /\ outFile'[g] # "open" /\ errFile'[g] # "open"
            /\ outFile[g] = "closed" => outFile'[g] = "closed"
            /\ errFile[g] = "closed" => errFile'[g] = "closed"
            /\ waiter'[g] # waiter[g] =>
                   (outPipe' = outPipe /\ errPipe' = errPipe)]_vars
    /\ \A g \in Gens :
          (OpenFile(g) /\ child[g] # "alive") ~> ~OpenFile(g)

\* C19: wait(timeout) returns False only when the timeout has passed with
\* the process still running: called on a process that is not running it
\* returns True for every timeout, 0 included, and a wait that returned
\* False has seen is_running true at least once.
C19_WaitFalseOnlyWhenRunning ==
    \A th \in Threads :
        (Back(th, "wait") /\ call[th].timeout # None) =>
            /\ ~call[th].running => ret[th] = True
            /\ ret[th] = False => elapsed[th] > 0

\* C20: once a started process runs no more, after a natural exit as after
\* a kill() that returned True, read() and eread() do not fail: they return
\* a string, and on files it is what the child has written.
C20_ReadableAfterFinish ==
    \A th \in Threads :
        /\ (Back(th, "read") /\ ~call[th].running) =>
               /\ ret[th] = Str
               /\ _stdout # "None" => sout[th] = outData
        /\ (Back(th, "eread") /\ ~call[th].running) =>
               /\ ret[th] = Str
               /\ _stderr # "None" => serr[th] = errData

====
